---- MODULE Spec2Model ----
(***************************************************************************)
(* The in-memory session store of the quiz app                             *)
(* (src/workspace/quiz-app/src/data/inMemory.ts): the process-wide db of   *)
(* quizzes, rooms and listeners, the grading and scoring functions, and    *)
(* one action per DataSource operation.                                    *)
(*                                                                         *)
(* Each operation is an async function that runs on the one JavaScript     *)
(* thread and has no await between its first read and its last write of    *)
(* db, so a call is one atomic step and concurrent calls are these steps   *)
(* in some order.  The one await, in joinRoom after getRoomByCode, comes   *)
(* before any write; what it looked up (the id of the room with that code) *)
(* cannot change afterwards, since rooms are never removed or re-coded.    *)
(*                                                                         *)
(* Ids come from generateId (time and random digits): every id it returns  *)
(* is taken to be new.  Timestamps, titles and prompts are left out: no    *)
(* operation reads them.                                                   *)
(***************************************************************************)
EXTENDS Integers, Sequences, FiniteSets, TLC

VARIABLES
    quizzes,    \* db.quizzes: quiz id -> Quiz
    rooms,      \* db.rooms: room id -> Room
    listeners,  \* db.listeners: room id -> listeners in insertion order
    ret,        \* the last call: the operation, and "ok" or the message of the Error thrown
    pushed,     \* the snapshots delivered to listeners during the last call
    unsubscribers,  \* the functions onRoomUpdate has returned, and whether each was called
    calls,      \* the number of calls made so far
    applied,    \* a pure function applied on its own: its arguments and its result
    app         \* the app store (useAppStore) and the page the browser shows

vars == <<quizzes, rooms, listeners, ret, pushed, unsubscribers, calls, applied, app>>

----------------------------------------------------------------------------
(* Bound of the model: runs of at most MaxCalls calls to the data source.   *)

MaxCalls == 6

----------------------------------------------------------------------------
(* Values.  An optional field (points?, timeLimitSec?, timeTakenSec?) is   *)
(* <<>> when undefined and <<n>> when set.  A string is a sequence of      *)
(* one-character strings; a submitted value carries its JavaScript type.   *)

Absent == <<>>
Some(n) == <<n>>

NumV(n) == [t |-> "number", n |-> n]
StrV(s) == [t |-> "string", s |-> s]
ObjV(m) == [t |-> "object", m |-> m]
NullV == [t |-> "null"]
UndefinedV == [t |-> "undefined"]
ArrV(a) == [t |-> "array", a |-> a]

\* An id no generateId call ever returned (an unknown room, quiz or participant).
UnknownId == 0

RECURSIVE SumSeq(_)
SumSeq(s) == IF s = <<>> THEN 0 ELSE Head(s) + SumSeq(Tail(s))

RECURSIVE SumOver(_, _)
SumOver(f, S) ==
    IF S = {} THEN 0
    ELSE LET x == CHOOSE y \in S : TRUE IN f[x] + SumOver(f, S \ {x})

----------------------------------------------------------------------------
(* Grading and scoring.                                                    *)

IsSpace(c) == c = " "

RECURSIVE TrimStart(_)
TrimStart(s) ==
    IF s # <<>> /\ IsSpace(Head(s)) THEN TrimStart(Tail(s)) ELSE s

RECURSIVE TrimEnd(_)
TrimEnd(s) ==
    IF s # <<>> /\ IsSpace(s[Len(s)]) THEN TrimEnd(SubSeq(s, 1, Len(s) - 1)) ELSE s

LowerChar(c) ==
    CASE c = "H" -> "h"
      [] c = "O" -> "o"
      [] c = "X" -> "x"
      [] OTHER -> c

normalizeString(value) ==
    LET trimmed == TrimEnd(TrimStart(value))
    IN [i \in 1..Len(trimmed) |-> LowerChar(trimmed[i])]

\* A variant of isAnswerCorrect that accepts whatever was submitted.
isAnswerGiven(question, value) == value # UndefinedV

\* mapping[k]: the property k of a submitted object or array, Absent when
\* undefined. An array has no property named by an item id.
Property(value, k) ==
    IF value.t = "object" /\ k \in DOMAIN value.m THEN Some(value.m[k]) ELSE Absent

isAnswerCorrect(question, value) ==
    CASE question.type = "mcq" ->
            value.t = "number" /\ value.n = question.correctIndex
      [] question.type = "fill" ->
            IF value.t # "string" THEN FALSE
            ELSE normalizeString(value.s) = normalizeString(question.expectedAnswer)
      [] question.type = "drag" ->
            \* !value || typeof value !== 'object': null is falsy, an array is an object
            IF value.t \notin {"object", "array"} THEN FALSE
            ELSE \A k \in DOMAIN question.correctMapping :
                    Property(value, k) = Some(question.correctMapping[k])
      [] OTHER -> FALSE

\* Number(value) of the prototype: Absent is NaN. A string is trimmed, ""
\* is 0 and a string of digits is its decimal value; an array goes through
\* its string, "" for the empty one and "[object Object]" and commas otherwise.
DigitChars == <<"0", "1", "2", "3", "4", "5", "6", "7", "8", "9">>

IsDigits(s) == \A i \in 1..Len(s) : \E d \in 1..10 : s[i] = DigitChars[d]

RECURSIVE ParseDigits(_)
ParseDigits(s) ==
    IF s = <<>> THEN 0
    ELSE 10 * ParseDigits(SubSeq(s, 1, Len(s) - 1))
           + (CHOOSE d \in 0..9 : s[Len(s)] = DigitChars[d + 1])

ToNumber(value) ==
    CASE value.t = "number" -> Some(value.n)
      [] value.t = "string" ->
            LET trimmed == TrimEnd(TrimStart(value.s))
            IN IF IsDigits(trimmed) THEN Some(ParseDigits(trimmed)) ELSE Absent
      [] value.t = "null" -> Some(0)
      [] value.t = "array" -> IF value.a = <<>> THEN Some(0) ELSE Absent
      [] OTHER -> Absent

\* String(n) for an integer n.
RECURSIVE NumberToString(_)
NumberToString(n) ==
    IF n < 0 THEN <<"-">> \o NumberToString(-n)
    ELSE IF n < 10 THEN <<DigitChars[n + 1]>>
    ELSE NumberToString(n \div 10) \o <<DigitChars[(n % 10) + 1]>>

\* String(value ?? ""): null and undefined give "", an object gives
\* "[object Object]", an array its elements' strings joined by commas.
RECURSIVE JoinObjects(_)
JoinObjects(a) ==
    IF a = <<>> THEN <<>>
    ELSE IF Len(a) = 1 THEN <<"[object Object]">>
    ELSE <<"[object Object]", ",">> \o JoinObjects(Tail(a))

ToStringOrEmpty(value) ==
    CASE value.t = "string" -> value.s
      [] value.t = "number" -> NumberToString(value.n)
      [] value.t \in {"null", "undefined"} -> <<>>
      [] value.t = "array" -> JoinObjects(value.a)
      [] OTHER -> <<"[object Object]">>

\* The prototype's gradeAnswer. A question of it has correct (mcq), answer
\* (fib) or pairs (match); a match answer is an array of {left, right}.
gradeAnswer(q, answer) ==
    CASE q.type = "mcq" -> ToNumber(answer) = Some(q.correct)
      [] q.type = "fib" ->
            normalizeString(ToStringOrEmpty(answer)) = normalizeString(q.answer)
      [] q.type = "match" ->
            IF answer.t # "array" THEN FALSE
            ELSE LET arr == answer.a
                     ok == \A i \in 1..Len(arr) :
                              \E j \in 1..Len(q.pairs) :
                                  /\ q.pairs[j].left = arr[i].left
                                  /\ q.pairs[j].right = arr[i].right
                 IN ok /\ Len(arr) = Len(q.pairs)
      [] OTHER -> FALSE

\* Math.round of the rational num / den, den > 0: floor(num / den + 1/2).
Round(num, den) == (2 * num + den) \div (2 * den)

Max(a, b) == IF a >= b THEN a ELSE b

\* The (base, timeLimitSec, clamped time) for which base * fraction is n + 1/2
\* in exact arithmetic but comes out of the double-precision evaluation of
\* base * (1 - time / timeLimitSec) just under it, so that Math.round gives n:
\* 5 / 12 rounds up to 0.4166666666666667, 1 minus it is 0.5833333333333333,
\* and 6 times that is 3.4999999999999996. It is the only such triple among
\* PointValues, TimeLimits and times up to 45.
FallsShortInDoubles == {<<6, 12, 5>>}

BasePointsOrNone(question) ==
    IF question.points = Absent THEN 0 ELSE question.points[1]

\* question.points ?? 10
BasePoints(question) ==
    IF question.points = Absent THEN 10 ELSE question.points[1]

calculateParticipation(question, isCorrect, timeTakenSec) ==
    BasePoints(question)

calculatePoints(question, isCorrect, timeTakenSec) ==
    IF ~isCorrect THEN 0
    ELSE LET base == BasePoints(question)
         IN IF question.timeLimitSec = Absent \/ question.timeLimitSec[1] = 0
                  \/ timeTakenSec = Absent
            THEN base
            ELSE LET limit == question.timeLimitSec[1]
                     taken == Max(0, timeTakenSec[1])
                     \* fraction = max(0.5, 1 - taken / limit) = num / den, den > 0
                     den == IF limit > 0 THEN 2 * limit ELSE -2 * limit
                     num == IF limit > 0 THEN Max(limit, 2 * (limit - taken))
                                         ELSE 2 * (taken - limit)
                 IN Round(base * num, den)
                      - (IF <<base, limit, taken>> \in FallsShortInDoubles THEN 1 ELSE 0)

----------------------------------------------------------------------------
(* The inputs the operations are called with.                              *)

QMcq == [id |-> "q1", type |-> "mcq", points |-> Some(10), timeLimitSec |-> Some(30),
         correctIndex |-> 2]
QMcqOnly == [id |-> "q1", type |-> "mcq", points |-> Absent, timeLimitSec |-> Some(30),
             correctIndex |-> 2]
QFill == [id |-> "q2", type |-> "fill", points |-> Absent, timeLimitSec |-> Absent,
          expectedAnswer |-> <<"H", "2", "O">>]

\* A question as the setup page lets a teacher author it: its Points field is
\* a number input without a minimum.
QPenalty == [id |-> "q1", type |-> "mcq", points |-> Some(-5), timeLimitSec |-> Absent,
             correctIndex |-> 2]

\* createQuiz payloads: the question sequences of the quizzes that get created.
QuizPayloads == {<<QMcq, QFill>>, <<QMcqOnly>>}

AuthoredPayloads == {<<QPenalty>>}

\* The arguments calculatePoints is applied to on its own. Point values and
\* time limits are what the setup page's number inputs accept, left out (the
\* field is optional) included; the time taken is a whole number of seconds,
\* as the question's timer counts it, or is not passed.
MaxTimeTaken == 35
PointValues == {Absent, Some(-5), Some(0), Some(6), Some(10)}
TimeLimits == {Absent, Some(-30), Some(0), Some(12), Some(30)}
TimesTaken == {Absent} \cup {Some(t) : t \in (-2)..MaxTimeTaken}
ScoredQuestions ==
    {[id |-> "q1", type |-> "mcq", points |-> p, timeLimitSec |-> l, correctIndex |-> 2] :
        p \in PointValues, l \in TimeLimits}

\* The arguments the grading functions are applied to on their own: questions
\* of each type, and values of every JavaScript type a caller can pass.
MaxSelections == 2
H2O == <<"H", "2", "O">>
Two == <<"2">>
GradedQuestions ==
    {[id |-> "q1", type |-> "mcq", correctIndex |-> c] : c \in {0, 2}}
    \cup {[id |-> "q2", type |-> "fill", expectedAnswer |-> e] : e \in {H2O, Two}}
    \cup {[id |-> "q3", type |-> "drag", correctMapping |-> [k \in {"A", "B"} |->
                                                              IF k = "A" THEN "1" ELSE "2"]]}
MatchPairs == <<[left |-> "A", right |-> "1"], [left |-> "B", right |-> "2"]>>
PrototypeQuestions ==
    {[id |-> "1", type |-> "mcq", correct |-> c] : c \in {0, 2}}
    \cup {[id |-> "2", type |-> "fib", answer |-> e] : e \in {H2O, Two}}
    \cup {[id |-> "3", type |-> "match", pairs |-> MatchPairs]}
GradedStrings ==
    {<<>>, Two, <<"0">>, <<" ", "2", " ">>, H2O, <<"h", "2", "o">>,
     <<" ", "h", "2", "o", " ">>, <<"H", "2">>}
Mappings ==
    UNION {[keys -> {"1", "2"}] : keys \in SUBSET {"A", "B", "C"}}
Selections ==
    UNION {[1..n -> [left : {"A", "B"}, right : {"1", "2"}]] : n \in 0..MaxSelections}
GradedValues ==
    {NumV(n) : n \in (-1)..3}
    \cup {StrV(str) : str \in GradedStrings}
    \cup {NullV, UndefinedV}
    \cup {ObjV(m) : m \in Mappings}
    \cup {ArrV(a) : a \in Selections}

\* A quiz with a question of each type, and values that are malformed for
\* one or more of them: null, nothing, an index no option has, a string, a
\* mapping with one entry missing, an array.
NumOptions == 4
QDrag == [id |-> "q3", type |-> "drag", points |-> Absent, timeLimitSec |-> Absent,
          correctMapping |-> [k \in {"A", "B"} |-> IF k = "A" THEN "1" ELSE "2"]]
MixedPayloads == {<<QMcq, QFill, QDrag>>}
MixedQuestionIds == {"q1", "q2", "q3"}
MalformedValues ==
    {NullV, UndefinedV, NumV(NumOptions), StrV(<<"x">>),
     ObjV([k \in {"A"} |-> "1"]), ArrV(<<>>)}
MalformedSubmissions ==
    [value : MalformedValues, timeTakenSec : {Some(15)}]

QuestionIds == {"q1", "q2", "q9"}
\* submitAnswer's (value, timeTakenSec): option 2 after 15 s, " h2o " untimed.
Submissions == {[value |-> NumV(2), timeTakenSec |-> Some(15)],
                [value |-> StrV(<<" ", "h", "2", "o", " ">>), timeTakenSec |-> Absent]}
Codes == {"AAAAAA", "BBBBBB"}
Names == {"ann"}
Callbacks == {"cb1", "cb2"}
\* A Set holds each callback once.
MaxListeners == Cardinality(Callbacks)

----------------------------------------------------------------------------
(* notify(roomId): one structuredClone of the room's snapshot to each      *)
(* listener of the room, in the Set's insertion order.                     *)

Snapshot(qz, rms, roomId) == [room |-> rms[roomId], quiz |-> qz[rms[roomId].quizId]]

\* A variant of notify that also delivers to the listeners of the first room.
notifyFirstRoomToo(qz, rms, lst, roomId) ==
    IF roomId \notin DOMAIN rms \/ roomId \notin DOMAIN lst THEN <<>>
    ELSE LET to == IF roomId = 1 THEN lst[roomId] ELSE lst[roomId] \o lst[1]
         IN [i \in 1..Len(to) |->
                [cb |-> to[i], snap |-> Snapshot(qz, rms, roomId)]]

\* A variant of notify that stops after the first listener of the room.
notifyFirst(qz, rms, lst, roomId) ==
    IF roomId \notin DOMAIN rms \/ roomId \notin DOMAIN lst THEN <<>>
    ELSE IF lst[roomId] = <<>> THEN <<>>
    ELSE <<[cb |-> lst[roomId][1], snap |-> Snapshot(qz, rms, roomId)]>>

notify(qz, rms, lst, roomId) ==
    IF roomId \notin DOMAIN rms \/ roomId \notin DOMAIN lst THEN <<>>
    ELSE [i \in 1..Len(lst[roomId]) |->
            [cb |-> lst[roomId][i], snap |-> Snapshot(qz, rms, roomId)]]

\* The app store as created: no room, no quiz, no participant; no question
\* is on screen.
AppStart ==
    [currentRoom |-> Absent, currentQuiz |-> Absent, participantId |-> Absent,
     page |-> "home", renderer |-> Absent]

Init ==
    /\ quizzes = <<>>
    /\ rooms = <<>>
    /\ listeners = <<>>
    /\ ret = [op |-> "none", outcome |-> "ok"]
    /\ pushed = <<>>
    /\ unsubscribers = <<>>
    /\ calls = 0
    /\ applied = [fn |-> "none"]
    /\ app = AppStart

\* A call that throws: the error is the outcome, nothing else changes.
Throw(op, message) ==
    /\ ret' = [op |-> op, outcome |-> message]
    /\ pushed' = <<>>
    /\ UNCHANGED <<quizzes, rooms, listeners, unsubscribers>>

\* generateId('room') / generateId('p'): an id that was never returned before.
NextRoomId == Len(rooms) + 1

NextParticipantId ==
    SumSeq([r \in 1..Len(rooms) |-> Len(rooms[r].participants)]) + 1

createQuiz(payload) ==
    /\ quizzes' = Append(quizzes, [id |-> Len(quizzes) + 1, questions |-> payload])
    /\ ret' = [op |-> "createQuiz", outcome |-> "ok"]
    /\ pushed' = <<>>
    /\ UNCHANGED <<rooms, listeners, unsubscribers>>

\* generateRoomCode() draws six random letters: any code, taken or not.
\* A variant of NewRoom that opens the room already running at question 0.
NewRoomRunning(id, code, quizId) ==
    [id |-> id, code |-> code, quizId |-> quizId,
     status |-> "running", currentQuestionIndex |-> 0,
     participants |-> <<>>, answers |-> <<>>]

\* The room createRoom creates.
NewRoom(id, code, quizId) ==
    [id |-> id, code |-> code, quizId |-> quizId,
     status |-> "lobby", currentQuestionIndex |-> -1,
     participants |-> <<>>, answers |-> <<>>]

createRoom(quizId, code) ==
    IF quizId \notin DOMAIN quizzes THEN Throw("createRoom", "Quiz not found")
    ELSE /\ LET id == NextRoomId
                room == NewRoom(id, code, quizId)
            IN /\ rooms' = Append(rooms, room)
               /\ listeners' = (id :> <<>>) @@ listeners
               /\ pushed' = notify(quizzes, rooms', listeners', id)
         /\ ret' = [op |-> "createRoom", outcome |-> "ok"]
         /\ UNCHANGED <<quizzes, unsubscribers>>

\* A variant of getRoomByCode that falls back on the first room of the store.
getRoomByCodeOrFirst(code) ==
    LET matching == {r \in DOMAIN rooms : rooms[r].code = code}
    IN IF matching = {} THEN (IF rooms = <<>> THEN UnknownId ELSE 1)
       ELSE CHOOSE r \in matching : \A o \in matching : r <= o

\* Object.values(db.rooms).find: the first room, in creation order, with that code.
getRoomByCode(code) ==
    LET matching == {r \in DOMAIN rooms : rooms[r].code = code}
    IN IF matching = {} THEN UnknownId
       ELSE CHOOSE r \in matching : \A o \in matching : r <= o

\* A variant of NewParticipant that starts a participant with ten points.
NewParticipantHeadStart(id, name) ==
    [id |-> id, name |-> name, score |-> 10, answeredQuestionIds |-> <<>>]

\* The participant joinRoom creates.
NewParticipant(id, name) ==
    [id |-> id, name |-> name, score |-> 0, answeredQuestionIds |-> <<>>]

joinRoom(code, name) ==
    LET roomId == getRoomByCode(code)
    IN IF roomId = UnknownId THEN Throw("joinRoom", "Room not found")
       ELSE /\ LET participant == NewParticipant(NextParticipantId, name)
               IN rooms' = [rooms EXCEPT ![roomId].participants = Append(@, participant)]
            /\ pushed' = notify(quizzes, rooms', listeners, roomId)
            /\ ret' = [op |-> "joinRoom", outcome |-> "ok"]
            /\ UNCHANGED <<quizzes, listeners, unsubscribers>>

\* room.status = 'running'; room.currentQuestionIndex = 0: the room after startQuiz.
Start(room) == [room EXCEPT !.status = "running", !.currentQuestionIndex = 0]

startQuiz(roomId) ==
    IF roomId \notin DOMAIN rooms THEN Throw("startQuiz", "Room not found")
    ELSE /\ rooms' = [rooms EXCEPT ![roomId] = Start(@)]
         /\ pushed' = notify(quizzes, rooms', listeners, roomId)
         /\ ret' = [op |-> "startQuiz", outcome |-> "ok"]
         /\ UNCHANGED <<quizzes, listeners, unsubscribers>>

\* A variant of Advance that increments first and finishes once the index has
\* run past the last question, leaving the index out of range.
AdvanceThenCheck(room, quiz) ==
    LET next == room.currentQuestionIndex + 1
    IN IF next >= Len(quiz.questions)
       THEN [room EXCEPT !.currentQuestionIndex = next, !.status = "finished"]
       ELSE [room EXCEPT !.currentQuestionIndex = next]

\* A variant of Advance that skips a question when two or more are left.
AdvanceSkipping(room, quiz) ==
    IF room.currentQuestionIndex < Len(quiz.questions) - 2
    THEN [room EXCEPT !.currentQuestionIndex = @ + 2]
    ELSE IF room.currentQuestionIndex < Len(quiz.questions) - 1
    THEN [room EXCEPT !.currentQuestionIndex = @ + 1]
    ELSE [room EXCEPT !.status = "finished"]

\* The room after goToNextQuestion: the next question, or finished after the last.
Advance(room, quiz) ==
    IF room.currentQuestionIndex < Len(quiz.questions) - 1
    THEN [room EXCEPT !.currentQuestionIndex = @ + 1]
    ELSE [room EXCEPT !.status = "finished"]

goToNextQuestion(roomId) ==
    IF roomId \notin DOMAIN rooms THEN Throw("goToNextQuestion", "Room not found")
    ELSE /\ LET room == rooms[roomId]
                quiz == quizzes[room.quizId]
            IN rooms' = [rooms EXCEPT ![roomId] = Advance(room, quiz)]
         /\ pushed' = notify(quizzes, rooms', listeners, roomId)
         /\ ret' = [op |-> "goToNextQuestion", outcome |-> "ok"]
         /\ UNCHANGED <<quizzes, listeners, unsubscribers>>

\* A variant of Finish that also takes the room back before its first question.
FinishAndRewind(room) ==
    [room EXCEPT !.status = "finished", !.currentQuestionIndex = -1]

\* room.status = 'finished': the room after finishQuiz.
Finish(room) == [room EXCEPT !.status = "finished"]

finishQuiz(roomId) ==
    IF roomId \notin DOMAIN rooms THEN Throw("finishQuiz", "Room not found")
    ELSE /\ rooms' = [rooms EXCEPT ![roomId] = Finish(@)]
         /\ pushed' = notify(quizzes, rooms', listeners, roomId)
         /\ ret' = [op |-> "finishQuiz", outcome |-> "ok"]
         /\ UNCHANGED <<quizzes, listeners, unsubscribers>>

\* A variant of FindQuestion that falls back on the quiz's first question.
FindQuestionOrFirst(questions, questionId) ==
    LET matching == {i \in 1..Len(questions) : questions[i].id = questionId}
    IN IF matching = {} THEN (IF questions = <<>> THEN 0 ELSE 1)
       ELSE CHOOSE i \in matching : \A o \in matching : i <= o

\* quiz.questions.find((q) => q.id === questionId): the index of the first
\* question with that id, 0 when there is none.
FindQuestion(questions, questionId) ==
    LET matching == {i \in 1..Len(questions) : questions[i].id = questionId}
    IN IF matching = {} THEN 0 ELSE CHOOSE i \in matching : \A o \in matching : i <= o

\* room.participants.find((p) => p.id === participantId), likewise.
FindParticipant(participants, participantId) ==
    LET matching == {i \in 1..Len(participants) : participants[i].id = participantId}
    IN IF matching = {} THEN 0 ELSE CHOOSE i \in matching : \A o \in matching : i <= o

Includes(s, x) == \E i \in 1..Len(s) : s[i] = x

\* A variant of RecordAnswer that leaves the answer out.
RecordNothing(answers, answer) == answers

\* room.answers[questionId] = room.answers[questionId] || []; then push(answer).
RecordAnswer(answers, answer) ==
    LET before == IF answer.questionId \in DOMAIN answers
                  THEN answers[answer.questionId] ELSE <<>>
    IN (answer.questionId :> Append(before, answer)) @@ answers

\* A variant of CreditParticipant that scores a question once only, although
\* every submission is recorded.
CreditParticipantOnce(participants, participantId, questionId, points) ==
    LET pi == FindParticipant(participants, participantId)
    IN IF pi = 0 \/ Includes(participants[pi].answeredQuestionIds, questionId)
       THEN participants
       ELSE [participants EXCEPT
                ![pi].score = @ + points,
                ![pi].answeredQuestionIds = Append(@, questionId)]

\* A variant of CreditParticipant that notes the question id on every
\* submission.
CreditParticipantEachTime(participants, participantId, questionId, points) ==
    LET pi == FindParticipant(participants, participantId)
    IN IF pi = 0 THEN participants
       ELSE [participants EXCEPT
                ![pi].score = @ + points,
                ![pi].answeredQuestionIds = Append(@, questionId)]

\* The participant, when found, gets the points and the question id.
CreditParticipant(participants, participantId, questionId, points) ==
    LET pi == FindParticipant(participants, participantId)
    IN IF pi = 0 THEN participants
       ELSE [participants EXCEPT
                ![pi].score = @ + points,
                ![pi].answeredQuestionIds =
                    IF Includes(@, questionId) THEN @ ELSE Append(@, questionId)]

submitAnswer(roomId, participantId, questionId, value, timeTakenSec) ==
    IF roomId \notin DOMAIN rooms THEN Throw("submitAnswer", "Room not found")
    ELSE LET room == rooms[roomId]
             quiz == quizzes[room.quizId]
             qi == FindQuestion(quiz.questions, questionId)
         IN IF qi = 0 THEN Throw("submitAnswer", "Question not found")
            ELSE LET question == quiz.questions[qi]
                     isCorrect == isAnswerCorrect(question, value)
                     points == calculatePoints(question, isCorrect, timeTakenSec)
                     answer == [questionId |-> questionId,
                                participantId |-> participantId,
                                value |-> value, isCorrect |-> isCorrect,
                                timeTakenSec |-> timeTakenSec,
                                pointsAwarded |-> points]
                     answers == RecordAnswer(room.answers, answer)
                     participants == CreditParticipant(room.participants,
                                        participantId, questionId, points)
                 IN /\ rooms' = [rooms EXCEPT ![roomId].answers = answers,
                                              ![roomId].participants = participants]
                    /\ pushed' = notify(quizzes, rooms', listeners, roomId)
                    /\ ret' = [op |-> "submitAnswer", outcome |-> "ok"]
                    /\ UNCHANGED <<quizzes, listeners, unsubscribers>>

\* A variant of CatchUp that sends the current state to every listener the
\* room has, the new one included.
CatchUpAll(roomId, cb) ==
    IF roomId \notin DOMAIN rooms THEN <<>>
    ELSE LET set == IF roomId \in DOMAIN listeners THEN listeners[roomId] ELSE <<>>
             added == IF Includes(set, cb) THEN set ELSE Append(set, cb)
         IN [i \in 1..Len(added) |->
                [cb |-> added[i], snap |-> Snapshot(quizzes, rooms, roomId)]]

\* if (room) cb(structuredClone({ room, quiz })): the current state, to the
\* subscribing callback alone.
CatchUp(roomId, cb) ==
    IF roomId \in DOMAIN rooms
    THEN <<[cb |-> cb, snap |-> Snapshot(quizzes, rooms, roomId)]>>
    ELSE <<>>

\* set.add(cb): a callback already in the Set keeps its place.
onRoomUpdate(roomId, cb) ==
    LET set == IF roomId \in DOMAIN listeners THEN listeners[roomId] ELSE <<>>
        added == IF Includes(set, cb) THEN set ELSE Append(set, cb)
    IN /\ listeners' = (roomId :> added) @@ listeners
       /\ pushed' = CatchUp(roomId, cb)
       /\ unsubscribers' = Append(unsubscribers,
                                  [roomId |-> roomId, cb |-> cb, called |-> FALSE])
       /\ ret' = [op |-> "onRoomUpdate", outcome |-> "ok"]
       /\ UNCHANGED <<quizzes, rooms>>

RECURSIVE Without(_, _)
Without(s, x) ==
    IF s = <<>> THEN <<>>
    ELSE IF Head(s) = x THEN Without(Tail(s), x)
    ELSE <<Head(s)>> \o Without(Tail(s), x)

\* The u-th function onRoomUpdate returned, () => set.delete(cb), is called:
\* it deletes its callback from the Set of its room.
unsubscribe(u) ==
    LET roomId == unsubscribers[u].roomId
        cb == unsubscribers[u].cb
    IN /\ listeners' = [listeners EXCEPT ![roomId] = Without(@, cb)]
       /\ unsubscribers' = [unsubscribers EXCEPT ![u].called = TRUE]
       /\ ret' = [op |-> "unsubscribe", outcome |-> "ok"]
       /\ pushed' = <<>>
       /\ UNCHANGED <<quizzes, rooms>>

\* getRoom(roomId): a structuredClone of the room and its quiz, or null.
getRoom(roomId) ==
    /\ ret' = [op |-> "getRoom", outcome |-> "ok",
               value |-> IF roomId \in DOMAIN rooms
                         THEN Some(Snapshot(quizzes, rooms, roomId)) ELSE Absent]
    /\ pushed' = <<>>
    /\ UNCHANGED <<quizzes, rooms, listeners, unsubscribers>>

\* The call getRoomByCode(code) of a reader: likewise, for the first room
\* with that code.
getRoomByCodeCall(code) ==
    /\ LET roomId == getRoomByCode(code)
       IN ret' = [op |-> "getRoomByCode", outcome |-> "ok",
                  value |-> IF roomId # UnknownId
                            THEN Some(Snapshot(quizzes, rooms, roomId)) ELSE Absent]
    /\ pushed' = <<>>
    /\ UNCHANGED <<quizzes, rooms, listeners, unsubscribers>>

\* startQuiz, goToNextQuestion and finishQuiz have no await: called from
\* inside a listener they run to their end, notify included, before the
\* listener returns.
Transitions == {"startQuiz", "goToNextQuestion", "finishQuiz"}

Apply(op, room) ==
    CASE op = "startQuiz" -> Start(room)
      [] op = "goToNextQuestion" -> Advance(room, quizzes[room.quizId])
      [] op = "finishQuiz" -> Finish(room)

\* The call outer(roomId) whose notify reaches, as j-th listener, a callback
\* that calls inner(roomId) on its first delivery.  notify's forEach clones
\* { room, quiz } anew for each listener, and room is the object the
\* operations write to: the listeners up to j get the room as outer left
\* it, then inner's notify goes to every listener, then outer's forEach goes
\* on with the listeners after j, cloning the room as it is by then.
callFromListener(roomId, outer, inner, j) ==
    /\ roomId \in DOMAIN rooms
    /\ j \in 1..Len(listeners[roomId])
    /\ LET set == listeners[roomId]
           afterOuter == [rooms EXCEPT ![roomId] = Apply(outer, @)]
           afterInner == [afterOuter EXCEPT ![roomId] = Apply(inner, @)]
       IN /\ rooms' = afterInner
          /\ pushed' =
                [i \in 1..j |->
                    [cb |-> set[i], snap |-> Snapshot(quizzes, afterOuter, roomId)]]
                \o notify(quizzes, afterInner, listeners, roomId)
                \o [i \in 1..(Len(set) - j) |->
                    [cb |-> set[j + i], snap |-> Snapshot(quizzes, afterInner, roomId)]]
    /\ ret' = [op |-> outer, outcome |-> "ok"]
    /\ UNCHANGED <<quizzes, listeners, unsubscribers>>

\* The participant object a caller holds from joinRoom.  joinRoom pushes
\* `participant` into room.participants and returns that same object, not a
\* clone: what the caller reads through it is the i-th element of the
\* room's participants as the store has it now.
JoinedParticipant(r, i) == rooms[r].participants[i]

----------------------------------------------------------------------------
(* The app store and the pages that use it.  Every listener it registers   *)
(* is a closure of its own; store callback k is the k-th one registered.   *)

\* Room codes as typed into the join form, and code.toUpperCase() of each.
TypedCodes == {"AAAAAA", "aaaaaa", "AaAaAa", "bbbbbb"}

ToUpperCase(code) ==
    CASE code \in {"aaaaaa", "AaAaAa"} -> "AAAAAA"
      [] code = "bbbbbb" -> "BBBBBB"
      [] OTHER -> code

\* A quiz of two multiple-choice questions of 2 seconds each.
QQuickA == [id |-> "q1", type |-> "mcq", points |-> Some(10), timeLimitSec |-> Some(2),
            correctIndex |-> 2]
QQuickB == [id |-> "q2", type |-> "mcq", points |-> Some(10), timeLimitSec |-> Some(2),
            correctIndex |-> 0]
QuickPayloads == {<<QQuickA, QQuickB>>}
Choices == {NumV(0), NumV(2)}

StoreCallback(k) == [store |-> k]

\* set.add(cb) for a callback that is in no Set yet.
Subscribed(lst, roomId, cb) ==
    (roomId :> Append(IF roomId \in DOMAIN lst THEN lst[roomId] ELSE <<>>, cb)) @@ lst

\* (snap) => set({ currentRoom: snap.room, currentQuiz: snap.quiz }), run for
\* each delivery in turn: the last one stays.
StoreSees(a, deliveries) ==
    IF deliveries = <<>> THEN a
    ELSE [a EXCEPT !.currentRoom = Some(deliveries[Len(deliveries)].snap.room),
                   !.currentQuiz = Some(deliveries[Len(deliveries)].snap.quiz)]

\* StudentRoom's activeQuestion: undefined (Absent) without room or quiz, in
\* the lobby, and when the index has no question.
ActiveQuestion(a) ==
    IF a.currentRoom = Absent \/ a.currentQuiz = Absent THEN Absent
    ELSE LET index == a.currentRoom[1].currentQuestionIndex
             questions == a.currentQuiz[1].questions
         IN IF index < 0 \/ index >= Len(questions) THEN Absent
            ELSE Some(questions[index + 1])

\* StudentRoom's hasSubmitted, which disables the question's inputs.
HasSubmitted(a) ==
    /\ ActiveQuestion(a) # Absent
    /\ LET q == ActiveQuestion(a)[1].id
           answers == a.currentRoom[1].answers
       IN /\ q \in DOMAIN answers
          /\ \E i \in 1..Len(answers[q]) :
                 Some(answers[q][i].participantId) = a.participantId

\* The effect on [timeLeft] of QuestionRenderer: timeLeft has become 0.
Expires(a, seconds) ==
    /\ ActiveQuestion(a)[1].timeLimitSec \notin {Absent, Some(0)}
    /\ Max(0, ActiveQuestion(a)[1].timeLimitSec[1] - seconds) = 0

\* What the page renders: on the student's room page a QuestionRenderer for
\* the active question, reset by its effect on [question.id] when the
\* question is another one (-1 selected for mcq, 0 seconds).
Render(a) ==
    IF a.page # "studentRoom" \/ ActiveQuestion(a) = Absent
    THEN [a EXCEPT !.renderer = Absent]
    ELSE LET q == ActiveQuestion(a)[1]
         IN IF a.renderer # Absent /\ a.renderer[1].questionId = q.id THEN a
            ELSE [a EXCEPT !.renderer =
                     Some([questionId |-> q.id,
                           value |-> IF q.type = "mcq" THEN NumV(-1) ELSE StrV(<<>>),
                           seconds |-> 0])]

\* One more call, which the store and the page may react to.
AppCall == calls < MaxCalls /\ calls' = calls + 1 /\ UNCHANGED applied

\* A call somebody else makes on the data source: the store's callbacks run.
Elsewhere(call) == AppCall /\ call /\ app' = Render(StoreSees(app, pushed'))

\* subscribeRoom(roomId): a new callback on the room.
subscribeRoom(roomId) ==
    /\ onRoomUpdate(roomId, StoreCallback(Len(unsubscribers) + 1))
    /\ app' = Render(StoreSees(app, pushed'))

\* The store's createQuizAndRoom: createQuiz, createRoom (which notifies
\* nobody yet), set, subscribeRoom. code is what generateRoomCode() draws.
createQuizAndRoom(payload, code) ==
    LET quiz == [id |-> Len(quizzes) + 1, questions |-> payload]
        room == NewRoom(NextRoomId, code, quiz.id)
        cb == StoreCallback(Len(unsubscribers) + 1)
        caught == <<[cb |-> cb, snap |-> [room |-> room, quiz |-> quiz]]>>
    IN /\ quizzes' = Append(quizzes, quiz)
       /\ rooms' = Append(rooms, room)
       /\ listeners' = Subscribed(listeners, room.id, cb)
       /\ unsubscribers' = Append(unsubscribers,
                                  [roomId |-> room.id, cb |-> cb, called |-> FALSE])
       /\ pushed' = caught
       /\ ret' = [op |-> "createQuizAndRoom", outcome |-> "ok"]
       /\ app' = Render(StoreSees([app EXCEPT !.currentRoom = Some(room),
                                              !.currentQuiz = Some(quiz)], caught))

\* The store's joinRoom as a step from the current state to a record of what
\* it leaves: api.joinRoom (which notifies the room's listeners), set,
\* subscribeRoom. A failure leaves everything but the error as it was.
StoreJoin(code, name) ==
    LET roomId == getRoomByCode(code)
    IN IF roomId = UnknownId
       THEN [rooms |-> rooms, listeners |-> listeners, unsubscribers |-> unsubscribers,
             pushed |-> <<>>, app |-> app, outcome |-> "Room not found"]
       ELSE LET participant == NewParticipant(NextParticipantId, name)
                joined == [rooms EXCEPT ![roomId].participants = Append(@, participant)]
                told == notify(quizzes, joined, listeners, roomId)
                cb == StoreCallback(Len(unsubscribers) + 1)
                caught == <<[cb |-> cb, snap |-> Snapshot(quizzes, joined, roomId)]>>
            IN [rooms |-> joined,
                listeners |-> Subscribed(listeners, roomId, cb),
                unsubscribers |-> Append(unsubscribers,
                                     [roomId |-> roomId, cb |-> cb, called |-> FALSE]),
                pushed |-> told \o caught,
                app |-> StoreSees([StoreSees(app, told) EXCEPT
                                      !.currentRoom = Some(joined[roomId]),
                                      !.currentQuiz = Some(quizzes[joined[roomId].quizId]),
                                      !.participantId = Some(participant.id)], caught),
                outcome |-> "ok"]

storeJoinRoom(code, name) ==
    LET st == StoreJoin(code, name)
    IN /\ rooms' = st.rooms
       /\ listeners' = st.listeners
       /\ unsubscribers' = st.unsubscribers
       /\ pushed' = st.pushed
       /\ ret' = [op |-> "store.joinRoom", outcome |-> st.outcome]
       /\ app' = Render(st.app)
       /\ UNCHANGED quizzes

\* StudentJoin's handleJoin: the store's joinRoom with the typed code in
\* upper case; then, when the store has a current room, whether the join
\* succeeded or not, the student's room page for it, whose effect calls
\* subscribeRoom. (trim() leaves the codes and names used here as they are.)
handleJoin(typed, name) ==
    LET st == StoreJoin(ToUpperCase(typed), name)
    IN /\ rooms' = st.rooms
       /\ ret' = [op |-> "handleJoin", outcome |-> st.outcome]
       /\ UNCHANGED quizzes
       /\ IF st.app.currentRoom = Absent
          THEN /\ listeners' = st.listeners
               /\ unsubscribers' = st.unsubscribers
               /\ pushed' = st.pushed
               /\ app' = Render(st.app)
          ELSE LET roomId == st.app.currentRoom[1].id
                   cb == StoreCallback(Len(st.unsubscribers) + 1)
                   caught == IF roomId \in DOMAIN st.rooms
                             THEN <<[cb |-> cb, snap |-> Snapshot(quizzes, st.rooms, roomId)]>>
                             ELSE <<>>
               IN /\ listeners' = Subscribed(st.listeners, roomId, cb)
                  /\ unsubscribers' = Append(st.unsubscribers,
                                         [roomId |-> roomId, cb |-> cb, called |-> FALSE])
                  /\ pushed' = st.pushed \o caught
                  /\ app' = Render([StoreSees(st.app, caught) EXCEPT !.page = "studentRoom"])

\* An option is selected (the inputs are disabled once hasSubmitted).
setValue(value) ==
    /\ app.renderer # Absent
    /\ ~HasSubmitted(app)
    /\ app' = [app EXCEPT !.renderer = Some([@[1] EXCEPT !.value = value])]
    /\ ret' = [op |-> "setValue", outcome |-> "ok"]
    /\ pushed' = <<>>
    /\ UNCHANGED <<quizzes, rooms, listeners, unsubscribers>>

\* QuestionRenderer's handleSubmit through StudentRoom's handleSubmit and the
\* store's submitAnswer, which needs a current room and a participant id.
SubmitFromPage(a) ==
    /\ a.currentRoom # Absent /\ a.participantId # Absent
    /\ submitAnswer(a.currentRoom[1].id, a.participantId[1], a.renderer[1].questionId,
                    a.renderer[1].value, Some(a.renderer[1].seconds))
    /\ app' = Render(StoreSees(a, pushed'))

\* The Submit button, disabled once hasSubmitted.
clickSubmit ==
    /\ app.renderer # Absent
    /\ ~HasSubmitted(app)
    /\ SubmitFromPage(app)

\* The interval's setSeconds((s) => s + 1) and the render that follows; when
\* it brings timeLeft to 0 the effect on [timeLeft] calls handleSubmit. The
\* seconds are counted up to the time limit, where timeLeft stays 0.
tick ==
    /\ app.renderer # Absent
    /\ ActiveQuestion(app)[1].timeLimitSec # Absent
    /\ app.renderer[1].seconds < ActiveQuestion(app)[1].timeLimitSec[1]
    /\ UNCHANGED <<calls, applied>>
    /\ LET seconds == app.renderer[1].seconds + 1
           later == [app EXCEPT !.renderer = Some([@[1] EXCEPT !.seconds = seconds])]
       IN IF Expires(later, seconds) /\ later.participantId # Absent
          THEN SubmitFromPage(later)
          ELSE /\ app' = later
               /\ ret' = [op |-> "tick", outcome |-> "ok"]
               /\ pushed' = <<>>
               /\ UNCHANGED <<quizzes, rooms, listeners, unsubscribers>>

RoomArgs == DOMAIN rooms \cup {UnknownId}
QuizArgs == DOMAIN quizzes \cup {UnknownId}
ParticipantArgs == 1..(NextParticipantId - 1) \cup {UnknownId}

\* One more call, within the bound.
Call == calls < MaxCalls /\ calls' = calls + 1 /\ UNCHANGED <<applied, app>>

\* The operations on quizzes and rooms.
NextStore ==
    \/ \E payload \in QuizPayloads : Call /\ createQuiz(payload)
    \/ \E quizId \in QuizArgs, code \in Codes : Call /\ createRoom(quizId, code)
    \/ \E code \in Codes, name \in Names : Call /\ joinRoom(code, name)
    \/ \E roomId \in RoomArgs : Call /\ startQuiz(roomId)
    \/ \E roomId \in RoomArgs : Call /\ goToNextQuestion(roomId)
    \/ \E roomId \in RoomArgs : Call /\ finishQuiz(roomId)
    \/ \E roomId \in RoomArgs, participantId \in ParticipantArgs,
          questionId \in QuestionIds, s \in Submissions :
            Call /\ submitAnswer(roomId, participantId, questionId, s.value, s.timeTakenSec)

\* Subscribing and unsubscribing.
NextObservers ==
    \/ \E roomId \in RoomArgs, cb \in Callbacks : Call /\ onRoomUpdate(roomId, cb)
    \/ \E u \in DOMAIN unsubscribers : Call /\ unsubscribe(u)

\* Quizzes with the point values a teacher may type.
NextAuthoring ==
    \E payload \in AuthoredPayloads : Call /\ createQuiz(payload)

\* Reading a room.
NextReaders ==
    \/ \E roomId \in RoomArgs : Call /\ getRoom(roomId)
    \/ \E code \in Codes : Call /\ getRoomByCodeCall(code)

\* Listeners that call back into the data source.
NextReentrant ==
    \E roomId \in DOMAIN rooms, outer \in Transitions, inner \in Transitions,
       j \in 1..MaxListeners :
        Call /\ callFromListener(roomId, outer, inner, j)

\* calculatePoints applied to the arguments drawn at the start.
applyCalculatePoints ==
    /\ applied.fn = "calculatePoints"
    /\ applied.result = Absent
    /\ applied' = [applied EXCEPT !.result =
                      Some(calculatePoints(applied.question, applied.isCorrect,
                                           applied.timeTakenSec))]
    /\ UNCHANGED <<quizzes, rooms, listeners, ret, pushed, unsubscribers, calls, app>>

\* isAnswerCorrect and gradeAnswer applied to the arguments drawn at the start.
applyIsAnswerCorrect ==
    /\ applied.fn = "isAnswerCorrect"
    /\ applied.result = Absent
    /\ applied' = [applied EXCEPT !.result =
                      Some(isAnswerCorrect(applied.question, applied.value))]
    /\ UNCHANGED <<quizzes, rooms, listeners, ret, pushed, unsubscribers, calls, app>>

applyGradeAnswer ==
    /\ applied.fn = "gradeAnswer"
    /\ applied.result = Absent
    /\ applied' = [applied EXCEPT !.result =
                      Some(gradeAnswer(applied.question, applied.value))]
    /\ UNCHANGED <<quizzes, rooms, listeners, ret, pushed, unsubscribers, calls, app>>

InitGrading ==
    /\ quizzes = <<>>
    /\ rooms = <<>>
    /\ listeners = <<>>
    /\ ret = [op |-> "none", outcome |-> "ok"]
    /\ pushed = <<>>
    /\ unsubscribers = <<>>
    /\ calls = 0
    /\ app = AppStart
    /\ applied \in
          {[fn |-> "isAnswerCorrect", question |-> q, value |-> v, result |-> Absent] :
              q \in GradedQuestions, v \in GradedValues}
          \cup {[fn |-> "gradeAnswer", question |-> q, value |-> v, result |-> Absent] :
                  q \in PrototypeQuestions, v \in GradedValues}

InitScoring ==
    /\ quizzes = <<>>
    /\ rooms = <<>>
    /\ listeners = <<>>
    /\ ret = [op |-> "none", outcome |-> "ok"]
    /\ pushed = <<>>
    /\ unsubscribers = <<>>
    /\ calls = 0
    /\ app = AppStart
    /\ applied \in {[fn |-> "calculatePoints", question |-> q, isCorrect |-> c,
                     timeTakenSec |-> t, result |-> Absent] :
                        q \in ScoredQuestions, c \in BOOLEAN, t \in TimesTaken}

\* A session on a quiz with a question of each type: rooms, participants,
\* the moderator's start and advance, and submissions of MalformedSubmissions.
NextMixed ==
    \/ \E payload \in MixedPayloads : Call /\ createQuiz(payload)
    \/ \E quizId \in DOMAIN quizzes, code \in Codes : Call /\ createRoom(quizId, code)
    \/ \E code \in Codes, name \in Names : Call /\ joinRoom(code, name)
    \/ \E roomId \in DOMAIN rooms : Call /\ startQuiz(roomId)
    \/ \E roomId \in DOMAIN rooms : Call /\ goToNextQuestion(roomId)
    \/ \E roomId \in DOMAIN rooms, questionId \in MixedQuestionIds,
          s \in MalformedSubmissions :
          \E i \in 1..Len(rooms[roomId].participants) :
            Call /\ submitAnswer(roomId, rooms[roomId].participants[i].id, questionId,
                                 s.value, s.timeTakenSec)

\* The app store's operations, and calls others make on the data source.
NextAppStore ==
    \/ \E payload \in QuizPayloads, code \in Codes :
          AppCall /\ createQuizAndRoom(payload, code)
    \/ \E code \in Codes, name \in Names : AppCall /\ storeJoinRoom(code, name)
    \/ \E roomId \in RoomArgs : AppCall /\ subscribeRoom(roomId)
    \/ \E code \in TypedCodes, name \in Names : Elsewhere(joinRoom(code, name))
    \/ \E roomId \in DOMAIN rooms : Elsewhere(startQuiz(roomId))

\* A student at the join form and in the room, the moderator being elsewhere.
NextStudent ==
    \/ \E payload \in QuickPayloads : Elsewhere(createQuiz(payload))
    \/ \E quizId \in DOMAIN quizzes, code \in Codes : Elsewhere(createRoom(quizId, code))
    \/ \E typed \in TypedCodes, name \in Names : AppCall /\ handleJoin(typed, name)
    \/ \E roomId \in DOMAIN rooms : Elsewhere(startQuiz(roomId))
    \/ \E roomId \in DOMAIN rooms : Elsewhere(goToNextQuestion(roomId))
    \/ \E value \in Choices : AppCall /\ setValue(value)
    \/ AppCall /\ clickSubmit
    \/ tick

Next == NextStore

Spec == Init /\ [][Next]_vars

SpecObservers == Init /\ [][NextStore \/ NextObservers]_vars

SpecAuthoring == Init /\ [][NextStore \/ NextAuthoring]_vars

SpecReaders == Init /\ [][NextStore \/ NextObservers \/ NextReaders]_vars

SpecScoring == InitScoring /\ [][applyCalculatePoints]_vars

SpecGrading == InitGrading /\ [][applyIsAnswerCorrect \/ applyGradeAnswer]_vars

SpecMixed == Init /\ [][NextMixed]_vars

SpecAppStore == Init /\ [][NextAppStore]_vars

SpecStudent == Init /\ [][NextStudent]_vars

SpecReentrant == Init /\ [][NextStore \/ NextObservers \/ NextReentrant]_vars

----------------------------------------------------------------------------
(* Properties.                                                             *)

\* The answers a room holds for a question, in submission order.
AnswersTo(room, questionId) ==
    IF questionId \in DOMAIN room.answers THEN room.answers[questionId] ELSE <<>>

\* The points a room's answers award to one participant id.
PointsOf(room, participantId) ==
    SumOver([q \in DOMAIN room.answers |->
                SumSeq([i \in 1..Len(room.answers[q]) |->
                    IF room.answers[q][i].participantId = participantId
                    THEN room.answers[q][i].pointsAwarded ELSE 0])],
            DOMAIN room.answers)

\* How many answers a room holds for a (participant, question) pair.
AnswerCount(room, participantId, questionId) ==
    Cardinality({i \in 1..Len(AnswersTo(room, questionId)) :
                    AnswersTo(room, questionId)[i].participantId = participantId})

ParticipantIds(room) == {room.participants[i].id : i \in 1..Len(room.participants)}

NumQuestions(room) == Len(quizzes[room.quizId].questions)

Rank(status) ==
    CASE status = "lobby" -> 0
      [] status = "running" -> 1
      [] status = "finished" -> 2

Scores(room) == [i \in 1..Len(room.participants) |-> room.participants[i].score]

\* C1: in every reachable state, every participant's score equals the sum of
\* pointsAwarded over the room's answers that carry that participant's id.
C1_ScoreIsSumOfPoints ==
    \A r \in DOMAIN rooms :
        \A i \in 1..Len(rooms[r].participants) :
            rooms[r].participants[i].score
                = PointsOf(rooms[r], rooms[r].participants[i].id)

\* C1 witness: submitAnswer has just credited a participant for a second
\* answer to the same question, the score counting both.
C1_Witness ==
    /\ ret = [op |-> "submitAnswer", outcome |-> "ok"]
    /\ \E r \in DOMAIN rooms :
          \E i \in 1..Len(rooms[r].participants), q \in DOMAIN rooms[r].answers :
              /\ AnswerCount(rooms[r], rooms[r].participants[i].id, q) = 2
              /\ rooms[r].participants[i].score > 0

\* C2: in every reachable state a room holds at most one answer for each
\* pair of one of its participants and a question.
C2_AtMostOneAnswerPerPair ==
    \A r \in DOMAIN rooms :
        \A p \in ParticipantIds(rooms[r]), q \in QuestionIds :
            AnswerCount(rooms[r], p, q) <= 1

\* C3: a submitAnswer for a (participant, question) pair that already has an
\* answer fails with DuplicateAnswer and leaves scores and answers unchanged.
C3_DuplicateRejected ==
    [][\A r \in DOMAIN rooms, q \in QuestionIds, s \in Submissions :
          \A p \in ParticipantIds(rooms[r]) :
            (/\ submitAnswer(r, p, q, s.value, s.timeTakenSec)
             /\ AnswerCount(rooms[r], p, q) >= 1)
            => /\ ret'.outcome = "DuplicateAnswer"
               /\ rooms' = rooms]_vars

\* C4: no step moves a room's status backwards in lobby, running, finished.
C4_StatusNeverRegresses ==
    [][\A r \in DOMAIN rooms :
            Rank(rooms[r].status) <= Rank(rooms'[r].status)]_vars

\* C5: in every reachable state the index is -1 exactly in the lobby, and a
\* valid question index whenever the room is running or finished.
C5_IndexMatchesStatus ==
    \A r \in DOMAIN rooms :
        /\ rooms[r].currentQuestionIndex = -1 <=> rooms[r].status = "lobby"
        /\ rooms[r].status \in {"running", "finished"}
            => /\ 0 <= rooms[r].currentQuestionIndex
               /\ rooms[r].currentQuestionIndex < NumQuestions(rooms[r])

\* C6: goToNextQuestion on a running room at the last question finishes the
\* room and leaves the index below the number of questions; at an earlier
\* question it adds exactly one to the index and the room stays running.
C6_AdvanceOnRunning ==
    [][\A r \in DOMAIN rooms :
            (goToNextQuestion(r) /\ rooms[r].status = "running")
            => LET i == rooms[r].currentQuestionIndex
                   n == NumQuestions(rooms[r])
               IN /\ i = n - 1
                      => /\ rooms'[r].status = "finished"
                         /\ rooms'[r].currentQuestionIndex < n
                  /\ (0 <= i /\ i < n - 1)
                      => /\ rooms'[r].currentQuestionIndex = i + 1
                         /\ rooms'[r].status = "running"]_vars

\* C6 witness: goToNextQuestion has just finished a room whose quiz has two
\* questions, from the last question.
C6_Witness ==
    /\ ret = [op |-> "goToNextQuestion", outcome |-> "ok"]
    /\ \E r \in DOMAIN rooms :
          /\ rooms[r].status = "finished"
          /\ NumQuestions(rooms[r]) = 2
          /\ rooms[r].currentQuestionIndex = 1

\* C7: startQuiz fails with RoomNotFound for an unknown room and with
\* InvalidTransition for a room that is not in the lobby, changing nothing;
\* on a lobby room it sets status running and index 0.
C7_StartQuizGuarded ==
    [][\A r \in RoomArgs :
            startQuiz(r)
            => /\ r \notin DOMAIN rooms
                    => ret'.outcome = "Room not found" /\ rooms' = rooms
               /\ (r \in DOMAIN rooms /\ rooms[r].status # "lobby")
                    => ret'.outcome = "InvalidTransition" /\ rooms' = rooms
               /\ (r \in DOMAIN rooms /\ rooms[r].status = "lobby")
                    => /\ rooms'[r].status = "running"
                       /\ rooms'[r].currentQuestionIndex = 0]_vars

\* C8: goToNextQuestion on a room in lobby or finished fails with
\* InvalidTransition and changes neither status nor index.
C8_AdvanceGuarded ==
    [][\A r \in DOMAIN rooms :
            (goToNextQuestion(r) /\ rooms[r].status \in {"lobby", "finished"})
            => /\ ret'.outcome = "InvalidTransition"
               /\ rooms'[r].status = rooms[r].status
               /\ rooms'[r].currentQuestionIndex
                    = rooms[r].currentQuestionIndex]_vars

\* C9: once a room is finished, no startQuiz, goToNextQuestion, finishQuiz or
\* submitAnswer changes its status, index, answers or any participant's score.
C9_FinishedIsFrozen ==
    [][\A r \in DOMAIN rooms :
            (/\ rooms[r].status = "finished"
             /\ ret'.op \in {"startQuiz", "goToNextQuestion", "finishQuiz",
                             "submitAnswer"})
            => /\ rooms'[r].status = "finished"
               /\ rooms'[r].currentQuestionIndex = rooms[r].currentQuestionIndex
               /\ rooms'[r].answers = rooms[r].answers
               /\ Scores(rooms'[r]) = Scores(rooms[r])]_vars

\* C10: no single step takes a room from lobby directly to finished.
C10_NoLobbyToFinished ==
    [][\A r \in DOMAIN rooms :
            ~(rooms[r].status = "lobby" /\ rooms'[r].status = "finished")]_vars

\* C11: finishQuiz on a running room sets its status to finished at whatever
\* index the room is, and leaves the index, the participants with their
\* scores, and the answers as they were.
C11_FinishKeepsTheRest ==
    [][\A r \in DOMAIN rooms :
            (finishQuiz(r) /\ rooms[r].status = "running")
            => /\ rooms'[r].status = "finished"
               /\ rooms'[r].currentQuestionIndex = rooms[r].currentQuestionIndex
               /\ rooms'[r].participants = rooms[r].participants
               /\ rooms'[r].answers = rooms[r].answers]_vars

\* C11 witness: finishQuiz has just ended a room early, at the first of two
\* questions, with a participant who had scored.
C11_Witness ==
    /\ ret = [op |-> "finishQuiz", outcome |-> "ok"]
    /\ \E r \in DOMAIN rooms :
          /\ rooms[r].status = "finished"
          /\ NumQuestions(rooms[r]) = 2
          /\ rooms[r].currentQuestionIndex = 0
          /\ \E i \in 1..Len(rooms[r].participants) :
                rooms[r].participants[i].score > 0

\* The room's quiz has a question with that id.
HasQuestion(room, questionId) ==
    \E i \in 1..NumQuestions(room) :
        quizzes[room.quizId].questions[i].id = questionId

\* C12: a submitAnswer for a question of the room's quiz under a participant
\* id that is no participant of the room fails with ParticipantNotFound,
\* leaves the room's answers and scores unchanged and pushes no snapshot.
C12_UnknownParticipantRejected ==
    [][\A r \in DOMAIN rooms, p \in ParticipantArgs, q \in QuestionIds,
          s \in Submissions :
            (/\ submitAnswer(r, p, q, s.value, s.timeTakenSec)
             /\ HasQuestion(rooms[r], q)
             /\ p \notin ParticipantIds(rooms[r]))
            => /\ ret'.outcome = "ParticipantNotFound"
               /\ rooms'[r].answers = rooms[r].answers
               /\ Scores(rooms'[r]) = Scores(rooms[r])
               /\ pushed' = <<>>]_vars

\* C13: a submitAnswer for an unknown room fails with 'Room not found', and
\* one for a question id that the room's quiz does not have fails with
\* 'Question not found'; either way no answer is appended, no score changes,
\* nothing else in the store changes and no snapshot is pushed.
C13_UnknownRoomOrQuestionRejected ==
    [][ret'.op = "submitAnswer"
        => LET participantIds == ParticipantArgs
           IN /\ \A p \in participantIds, q \in QuestionIds, s \in Submissions :
                    submitAnswer(UnknownId, p, q, s.value, s.timeTakenSec)
                    => /\ ret'.outcome = "Room not found"
                       /\ UNCHANGED <<quizzes, rooms, listeners>>
                       /\ pushed' = <<>>
              /\ \A r \in DOMAIN rooms, q \in QuestionIds :
                    ~HasQuestion(rooms[r], q)
                    => \A p \in participantIds, s \in Submissions :
                          submitAnswer(r, p, q, s.value, s.timeTakenSec)
                          => /\ ret'.outcome = "Question not found"
                             /\ UNCHANGED <<quizzes, rooms, listeners>>
                             /\ pushed' = <<>>]_vars

\* C13 witness: submitAnswer has just thrown 'Question not found' in a store
\* that holds a running room with a participant and a subscribed listener.
C13_Witness ==
    /\ ret = [op |-> "submitAnswer", outcome |-> "Question not found"]
    /\ \E r \in DOMAIN rooms :
          /\ rooms[r].status = "running"
          /\ rooms[r].participants # <<>>
          /\ listeners[r] # <<>>

\* What one successful submitAnswer(r, p, q, ...) step may change in room r:
\* one answer of p to q more at the end of q's list, its points on p's score.
SubmitEffect(r, p, q) ==
    LET before == AnswersTo(rooms[r], q)
        after == AnswersTo(rooms'[r], q)
        answer == after[Len(after)]
    IN /\ Len(after) = Len(before) + 1
       /\ after = Append(before, answer)
       /\ answer.participantId = p /\ answer.questionId = q
       /\ \A o \in QuestionIds \ {q} :
              AnswersTo(rooms'[r], o) = AnswersTo(rooms[r], o)
       /\ Len(rooms'[r].participants) = Len(rooms[r].participants)
       /\ \E i \in 1..Len(rooms[r].participants) :
              /\ rooms[r].participants[i].id = p
              /\ rooms'[r].participants[i].score
                    = rooms[r].participants[i].score + answer.pointsAwarded
       /\ \A i \in 1..Len(rooms[r].participants) :
              rooms[r].participants[i].id # p
              => rooms'[r].participants[i].score = rooms[r].participants[i].score
       /\ rooms'[r].status = rooms[r].status
       /\ rooms'[r].currentQuestionIndex = rooms[r].currentQuestionIndex

\* C14: a submitAnswer that succeeds appends exactly one answer at the end of
\* the question's list, adds exactly its pointsAwarded to the submitting
\* participant's score, and leaves earlier answers, other questions' answers,
\* other participants' scores, the status and the index unchanged.
C14_SubmitAppendsAndCredits ==
    [][\A r \in DOMAIN rooms, p \in ParticipantArgs, q \in QuestionIds,
          s \in Submissions :
            (/\ submitAnswer(r, p, q, s.value, s.timeTakenSec)
             /\ ret'.outcome = "ok")
            => SubmitEffect(r, p, q)]_vars

\* The position of a question of the room's quiz, counted from 0 as
\* currentQuestionIndex is.
IndexOfQuestion(room, questionId) ==
    (CHOOSE i \in 1..NumQuestions(room) :
        quizzes[room.quizId].questions[i].id = questionId) - 1

\* C15: a submitAnswer by a participant of the room for a question of its
\* quiz adds no answer and no points when the room is in the lobby or
\* finished, or when the question comes before the current one and the
\* participant has not answered it.
C15_AnswersOnlyWhileRunning ==
    [][\A r \in DOMAIN rooms, q \in QuestionIds, s \in Submissions :
         \A p \in ParticipantIds(rooms[r]) :
            (/\ submitAnswer(r, p, q, s.value, s.timeTakenSec)
             /\ HasQuestion(rooms[r], q)
             /\ \/ rooms[r].status \in {"lobby", "finished"}
                \/ /\ IndexOfQuestion(rooms[r], q) < rooms[r].currentQuestionIndex
                   /\ AnswerCount(rooms[r], p, q) = 0)
            => /\ rooms'[r].answers = rooms[r].answers
               /\ Scores(rooms'[r]) = Scores(rooms[r])]_vars

\* C16: a joinRoom with a code that no room has fails with 'Room not found':
\* no participant is added to any room, nothing else in the store changes
\* and no snapshot is pushed.
C16_JoinUnknownCodeRejected ==
    [][ret'.op = "joinRoom"
        => \A code \in Codes, name \in Names :
            (/\ \A r \in DOMAIN rooms : rooms[r].code # code
             /\ joinRoom(code, name))
            => /\ ret'.outcome = "Room not found"
               /\ UNCHANGED <<quizzes, rooms, listeners>>
               /\ pushed' = <<>>]_vars

\* C16 witness: joinRoom has just thrown 'Room not found' although the store
\* holds a room, under another code, with a subscribed listener.
C16_Witness ==
    /\ ret = [op |-> "joinRoom", outcome |-> "Room not found"]
    /\ \E r \in DOMAIN rooms : listeners[r] # <<>>

\* All participant ids of the store.
AllParticipantIds == UNION {ParticipantIds(rooms[r]) : r \in DOMAIN rooms}

\* C17: a joinRoom with the code of a room succeeds whatever the room's
\* status, and appends exactly one new participant, with score 0 and no
\* answered question, at the end of one room's participant list, leaving
\* the participants before it, the status, the index, the answers and every
\* other room unchanged; and no step of any operation removes or reorders
\* participants.
C17_JoinAppendsOneParticipant ==
    [][/\ \A code \in Codes, name \in Names :
            (/\ joinRoom(code, name)
             /\ \E r \in DOMAIN rooms : rooms[r].code = code)
            => /\ ret'.outcome = "ok"
               /\ \E r \in DOMAIN rooms :
                     LET new == rooms'[r].participants[Len(rooms'[r].participants)]
                     IN /\ rooms[r].code = code
                        /\ rooms'[r] = [rooms[r] EXCEPT
                                           !.participants = Append(@, new)]
                        /\ new.score = 0
                        /\ new.answeredQuestionIds = <<>>
                        /\ new.name = name
                        /\ new.id \notin AllParticipantIds
                        /\ \A o \in DOMAIN rooms \ {r} : rooms'[o] = rooms[o]
       /\ \A r \in DOMAIN rooms :
            /\ r \in DOMAIN rooms'
            /\ Len(rooms'[r].participants) >= Len(rooms[r].participants)
            /\ \A i \in 1..Len(rooms[r].participants) :
                  rooms'[r].participants[i].id = rooms[r].participants[i].id]_vars

\* C17 witness: joinRoom has just added a second participant to a finished
\* room whose first participant had scored.
C17_Witness ==
    /\ ret = [op |-> "joinRoom", outcome |-> "ok"]
    /\ \E r \in DOMAIN rooms :
          /\ rooms[r].status = "finished"
          /\ Len(rooms[r].participants) = 2
          /\ rooms[r].participants[1].score > 0
          /\ rooms[r].participants[2].score = 0
          /\ rooms[r].participants[2].answeredQuestionIds = <<>>

\* C18: in every reachable state no two rooms of the store have the same
\* join code.
C18_JoinCodesUnique ==
    \A r1, r2 \in DOMAIN rooms : r1 # r2 => rooms[r1].code # rooms[r2].code

\* C19: createRoom for a quiz of the store adds one room, for that quiz, in
\* the lobby with index -1, no participants and no answers, and leaves the
\* rooms before it as they were; createRoom for an unknown quiz id fails
\* with 'Quiz not found' and creates no room.
C19_CreateRoomInLobby ==
    [][\A quizId \in QuizArgs, code \in Codes :
            createRoom(quizId, code)
            => /\ quizId \in DOMAIN quizzes
                    => /\ ret'.outcome = "ok"
                       /\ Len(rooms') = Len(rooms) + 1
                       /\ \A r \in DOMAIN rooms : rooms'[r] = rooms[r]
                       /\ LET room == rooms'[Len(rooms')]
                          IN /\ room.quizId = quizId
                             /\ room.code = code
                             /\ room.status = "lobby"
                             /\ room.currentQuestionIndex = -1
                             /\ room.participants = <<>>
                             /\ room.answers = <<>>
               /\ quizId \notin DOMAIN quizzes
                    => /\ ret'.outcome = "Quiz not found"
                       /\ UNCHANGED <<rooms, listeners>>]_vars

\* C19 witness: createRoom has just added a second, empty lobby room to a
\* store whose first room is running with a participant.
C19_Witness ==
    /\ ret = [op |-> "createRoom", outcome |-> "ok"]
    /\ Len(rooms) = 2
    /\ rooms[1].status = "running" /\ rooms[1].participants # <<>>
    /\ rooms[2].status = "lobby" /\ rooms[2].currentQuestionIndex = -1
    /\ rooms[2].participants = <<>> /\ rooms[2].answers = <<>>

\* The snapshots of room r delivered in this step are one per listener
\* subscribed to r, each of the room as the step leaves it.
OnePushEach(r) ==
    /\ Len(pushed') = Len(listeners[r])
    /\ \A c \in Callbacks :
          Includes(listeners[r], c)
          => Cardinality({i \in 1..Len(pushed') : pushed'[i].cb = c}) = 1
    /\ \A i \in 1..Len(pushed') :
          pushed'[i].snap = [room |-> rooms'[r], quiz |-> quizzes[rooms[r].quizId]]

\* C20: a joinRoom, startQuiz, goToNextQuestion, finishQuiz or submitAnswer
\* that succeeds on a room delivers exactly one snapshot of the room to
\* every listener subscribed to it and none to anyone else; one that fails
\* delivers no snapshot.
C20_OneSnapshotPerObserver ==
    [][/\ (ret'.op \in {"joinRoom", "submitAnswer"} /\ ret'.outcome = "ok")
            \* the room the call was on is the one room it changed
            => /\ \E r \in DOMAIN rooms : rooms'[r] # rooms[r]
               /\ \A r \in DOMAIN rooms :
                     rooms'[r] # rooms[r] => OnePushEach(r)
       /\ ret'.op \in {"startQuiz", "goToNextQuestion", "finishQuiz"}
            => \A r \in DOMAIN rooms :
                  /\ startQuiz(r) => OnePushEach(r)
                  /\ goToNextQuestion(r) => OnePushEach(r)
                  /\ finishQuiz(r) => OnePushEach(r)
       /\ (/\ ret'.op \in {"joinRoom", "startQuiz", "goToNextQuestion",
                            "finishQuiz", "submitAnswer"}
           /\ ret'.outcome # "ok"
           /\ calls' # calls)
            => pushed' = <<>>]_vars

\* C20 witness: a submitAnswer by a participant has just delivered one
\* snapshot of the room, with the new score, to each of its two listeners.
C20_Witness ==
    /\ ret = [op |-> "submitAnswer", outcome |-> "ok"]
    /\ \E r \in DOMAIN rooms :
          /\ Len(listeners[r]) = 2
          /\ Len(pushed) = 2
          /\ pushed[1].cb # pushed[2].cb
          /\ pushed[1].snap.room = rooms[r]
          /\ \E i \in 1..Len(rooms[r].participants) :
                rooms[r].participants[i].score > 0

\* C21: onRoomUpdate never fails; on a room that exists it delivers, within
\* the call, exactly one snapshot, of the room as it is, to the subscribing
\* callback and nothing to any other listener; on a room id that does not
\* exist it delivers nothing.  Either way the callback is subscribed
\* afterwards and the rooms are as they were.
C21_SubscribeCatchesUp ==
    [][ret'.op = "onRoomUpdate"
        => \A r \in RoomArgs, cb \in Callbacks :
            onRoomUpdate(r, cb)
            => /\ ret'.outcome = "ok"
               /\ rooms' = rooms
               /\ Includes(listeners'[r], cb)
               /\ r \in DOMAIN rooms
                    => pushed' = <<[cb |-> cb,
                                    snap |-> [room |-> rooms[r],
                                              quiz |-> quizzes[rooms[r].quizId]]]>>
               /\ r \notin DOMAIN rooms => pushed' = <<>>]_vars

\* C21 witness: a second callback has just subscribed to a running room with
\* a participant and got the one snapshot of that call.
C21_Witness ==
    /\ ret = [op |-> "onRoomUpdate", outcome |-> "ok"]
    /\ \E r \in DOMAIN rooms :
          /\ rooms[r].status = "running"
          /\ rooms[r].participants # <<>>
          /\ Len(listeners[r]) = 2
          /\ Len(pushed) = 1
          /\ pushed[1].cb = listeners[r][2]
          /\ pushed[1].snap.room = rooms[r]

\* C22: in every reachable state, a callback that holds a subscription to a
\* room of the store whose unsubscribe function has not been called is among
\* the room's listeners, and so gets the room's pushes.
C22_LiveSubscriptionListens ==
    \A u \in DOMAIN unsubscribers :
        (~unsubscribers[u].called /\ unsubscribers[u].roomId \in DOMAIN rooms)
        => Includes(listeners[unsubscribers[u].roomId], unsubscribers[u].cb)

\* The participant as joinRoom returned it.
AsReturned(participant) == NewParticipant(participant.id, participant.name)

\* C23: in every reachable state, the participant a caller got from joinRoom
\* still reads as it was returned: no later mutation of the store shows
\* through a value the store handed out.
C23_JoinedParticipantIsACopy ==
    \A r \in DOMAIN rooms :
        \A i \in 1..Len(rooms[r].participants) :
            JoinedParticipant(r, i) = AsReturned(rooms[r].participants[i])

\* The snapshots of one call that went to one callback, in delivery order.
RECURSIVE PushesTo(_, _)
PushesTo(deliveries, cb) ==
    IF deliveries = <<>> THEN <<>>
    ELSE IF Head(deliveries).cb = cb
         THEN <<Head(deliveries).snap>> \o PushesTo(Tail(deliveries), cb)
         ELSE PushesTo(Tail(deliveries), cb)

\* The transitions the lifecycle lobby, running, finished allows.
Allowed(status, op) ==
    \/ status = "lobby" /\ op = "startQuiz"
    \/ status = "running" /\ op \in {"goToNextQuestion", "finishQuiz"}

\* C24: when a listener of a room calls a second operation on the room while
\* the first one's snapshot is being delivered, both operations being
\* transitions the lifecycle allows, every listener of the room still gets
\* two snapshots: first the room as the first operation left it, then the
\* room as the second left it.
C24_InOrderPerObserver ==
    [][\A r \in DOMAIN rooms, outer \in Transitions, inner \in Transitions,
          j \in 1..MaxListeners :
            (/\ Allowed(rooms[r].status, outer)
             /\ Allowed(Apply(outer, rooms[r]).status, inner)
             /\ callFromListener(r, outer, inner, j))
            => LET first == [rooms EXCEPT ![r] = Apply(outer, @)]
               IN \A i \in 1..Len(listeners[r]) :
                    PushesTo(pushed', listeners[r][i])
                        = <<Snapshot(quizzes, first, r), Snapshot(quizzes, rooms', r)>>]_vars

\* In a room every participant's score is the sum of the points of the
\* room's answers under the participant's id.
Settled(room) ==
    \A i \in 1..Len(room.participants) :
        room.participants[i].score = PointsOf(room, room.participants[i].id)

\* C25: the room in every snapshot delivered to a listener and in every
\* snapshot returned by getRoom or getRoomByCode is settled: each score is
\* the sum of the participant's recorded points, after any sequence of calls.
C25_SnapshotsAreSettled ==
    /\ \A i \in 1..Len(pushed) : Settled(pushed[i].snap.room)
    /\ (ret.op \in {"getRoom", "getRoomByCode"} /\ ret.value # Absent)
            => Settled(ret.value[1].room)

\* C25 witness: getRoom has just returned a room in which a participant has
\* two scored answers to one question.
C25_Witness ==
    /\ ret.op = "getRoom"
    /\ ret.value # Absent
    /\ LET room == ret.value[1].room
       IN \E i \in 1..Len(room.participants), q \in DOMAIN room.answers :
              /\ AnswerCount(room, room.participants[i].id, q) = 2
              /\ room.participants[i].score > 5

\* This step is confined to room r: every other room is as it was, and
\* every snapshot delivered is of room r and goes to a listener of room r.
Confined(r) ==
    /\ \A o \in DOMAIN rooms \ {r} : rooms'[o] = rooms[o]
    /\ \A i \in 1..Len(pushed') :
          /\ pushed'[i].snap.room.id = r
          /\ r \in DOMAIN listeners' /\ Includes(listeners'[r], pushed'[i].cb)

\* C26: a call of startQuiz, goToNextQuestion, finishQuiz, submitAnswer or
\* onRoomUpdate for room r is confined to r; a joinRoom is confined to a
\* room with the code it was given; a createRoom is confined to the room it
\* creates.  (For submitAnswer the formula reads: a step not confined to r
\* is no submitAnswer for r.)
C26_RoomsAreIsolated ==
    [][/\ ret'.op \in {"startQuiz", "goToNextQuestion", "finishQuiz"}
            => \A r \in DOMAIN rooms :
                  (startQuiz(r) \/ goToNextQuestion(r) \/ finishQuiz(r))
                  => Confined(r)
       /\ ret'.op = "submitAnswer"
            => \A r \in DOMAIN rooms :
                  ~Confined(r)
                  => \A p \in ParticipantArgs, q \in QuestionIds, s \in Submissions :
                        ~submitAnswer(r, p, q, s.value, s.timeTakenSec)
       /\ ret'.op = "onRoomUpdate"
            => \A r \in DOMAIN rooms, cb \in Callbacks :
                  onRoomUpdate(r, cb) => Confined(r)
       /\ ret'.op = "joinRoom"
            => \A code \in Codes, name \in Names :
                  joinRoom(code, name)
                  => \/ rooms' = rooms /\ pushed' = <<>>
                     \/ \E r \in DOMAIN rooms : rooms[r].code = code /\ Confined(r)
       /\ ret'.op = "createRoom"
            => \A quizId \in QuizArgs, code \in Codes :
                  createRoom(quizId, code) => Confined(Len(rooms) + 1)]_vars

\* C26 witness: startQuiz has just started the second room of the store,
\* which nobody observes; the first room, which has a listener, is still in
\* the lobby and nothing was delivered.
C26_Witness ==
    /\ ret = [op |-> "startQuiz", outcome |-> "ok"]
    /\ Len(rooms) = 2
    /\ rooms[1].status = "lobby" /\ listeners[1] # <<>>
    /\ rooms[2].status = "running" /\ listeners[2] = <<>>
    /\ pushed = <<>>

\* C27: every step leaves every participant's score at least what it was,
\* and at least 0.
C27_ScoreNeverDrops ==
    [][\A r \in DOMAIN rooms :
          \A i \in 1..Len(rooms[r].participants) :
              /\ rooms'[r].participants[i].score >= rooms[r].participants[i].score
              /\ rooms'[r].participants[i].score >= 0]_vars

----------------------------------------------------------------------------
(* The scoring function on its own.                                        *)

Scored == applied.fn = "calculatePoints" /\ applied.result # Absent

\* C28: calculatePoints gives 0 for every incorrect answer, whatever the
\* question's point value and time limit and whatever the time taken.
C28_IncorrectScoresZero ==
    (Scored /\ ~applied.isCorrect) => applied.result = Some(0)

\* An incorrect answer to a 10-point question with a 30 s limit, given after
\* 15 s, has been scored.
C28_Witness ==
    /\ Scored
    /\ ~applied.isCorrect
    /\ applied.question.points = Some(10)
    /\ applied.question.timeLimitSec = Some(30)
    /\ applied.timeTakenSec = Some(15)

\* C29: for a correct answer to a question without time limit, or with no
\* time taken passed, calculatePoints gives the question's point value, and
\* 10 when the question has none.
C29_UntimedScoresFull ==
    (/\ Scored
     /\ applied.isCorrect
     /\ applied.question.timeLimitSec = Absent \/ applied.timeTakenSec = Absent)
    => applied.result =
          (IF applied.question.points = Absent THEN Some(10)
           ELSE applied.question.points)

\* A correct answer to a question with neither point value nor time limit,
\* given after 15 s, has been scored; so has one to a 6-point question with a
\* 12 s limit when no time was passed.
C29_Witness ==
    /\ Scored
    /\ applied.isCorrect
    /\ \/ /\ applied.question.points = Absent
          /\ applied.question.timeLimitSec = Absent
          /\ applied.timeTakenSec = Some(15)
       \/ /\ applied.question.points = Some(6)
          /\ applied.question.timeLimitSec = Some(12)
          /\ applied.timeTakenSec = Absent

\* round(base * max(0.5, 1 - max(0, timeTaken) / timeLimit)) in exact
\* arithmetic, for timeLimit > 0.
Decayed(base, timeLimit, timeTaken) ==
    Round(base * Max(timeLimit, 2 * (timeLimit - Max(0, timeTaken))), 2 * timeLimit)

\* C30: for a correct answer to a question with a time limit (a positive one,
\* and a point value that is not negative), calculatePoints gives
\* round(base * max(0.5, 1 - max(0, timeTaken) / timeLimit)): base when the
\* time taken is 0 or negative, round(base * 0.5) when it is the time limit or
\* more, and something between the two for every time taken.
C30_TimedScoresDecay ==
    (/\ Scored
     /\ applied.isCorrect
     /\ applied.timeTakenSec # Absent
     /\ applied.question.timeLimitSec # Absent
     /\ applied.question.timeLimitSec[1] > 0
     /\ BasePoints(applied.question) >= 0)
    => LET base == BasePoints(applied.question)
           timeLimit == applied.question.timeLimitSec[1]
           timeTaken == applied.timeTakenSec[1]
           points == applied.result[1]
       IN /\ points = Decayed(base, timeLimit, timeTaken)
          /\ timeTaken <= 0 => points = base
          /\ timeTaken >= timeLimit => points = Round(base, 2)
          /\ Round(base, 2) <= points
          /\ points <= base

----------------------------------------------------------------------------
(* Grading on its own.                                                     *)

Graded == applied.fn \in {"isAnswerCorrect", "gradeAnswer"} /\ applied.result # Absent

\* The correct option index of a multiple-choice question of either kind.
CorrectOption(q) == IF "correctIndex" \in DOMAIN q THEN q.correctIndex ELSE q.correct

\* A string that is a numeral, spaces around it aside.
IsDigitString(value) ==
    /\ value.t = "string"
    /\ TrimEnd(TrimStart(value.s)) # <<>>
    /\ IsDigits(TrimEnd(TrimStart(value.s)))

\* C31: a multiple-choice answer that is a number is graded correct exactly
\* when it is the correct option index, and one that is no number at all
\* (null, undefined, an object, an array, a string that is no numeral) is
\* graded not correct.
C31_McqCorrectIffIndex ==
    (Graded /\ applied.question.type = "mcq")
    => /\ applied.value.t = "number"
            => (applied.result[1] <=> applied.value.n = CorrectOption(applied.question))
       /\ (applied.value.t # "number" /\ ~IsDigitString(applied.value))
            => ~applied.result[1]

\* The expected answer of a fill-in-blank question of either kind.
ExpectedText(q) == IF "expectedAnswer" \in DOMAIN q THEN q.expectedAnswer ELSE q.answer

\* A string or number coerced to a string.
Coerced(value) == IF value.t = "string" THEN value.s ELSE NumberToString(value.n)

\* C32: a fill-in-blank answer that is a string or a number is graded correct
\* exactly when it, coerced to a string, trimmed and lower-cased, equals the
\* expected answer trimmed and lower-cased.
C32_FillCorrectIffNormalizedEqual ==
    (/\ Graded
     /\ applied.question.type \in {"fill", "fib"}
     /\ applied.value.t \in {"string", "number"})
    => (applied.result[1] <=>
          normalizeString(Coerced(applied.value))
            = normalizeString(ExpectedText(applied.question)))

\* C33: a submitted mapping is graded correct exactly when it has the item
\* ids of the question's correct mapping, no fewer and no more, and gives
\* each its paired target.
C33_DragAllOrNothing ==
    (/\ Graded
     /\ applied.fn = "isAnswerCorrect"
     /\ applied.question.type = "drag"
     /\ applied.value.t = "object")
    => (applied.result[1] <=>
          /\ DOMAIN applied.value.m = DOMAIN applied.question.correctMapping
          /\ \A k \in DOMAIN applied.value.m :
                 applied.value.m[k] = applied.question.correctMapping[k])

\* A value that is malformed for a question: no option index, no string, no
\* mapping, or a mapping that lacks an item of the question.
Malformed(question, value) ==
    CASE question.type = "mcq" ->
            value.t # "number" \/ value.n \notin 0..(NumOptions - 1)
      [] question.type = "fill" -> value.t # "string"
      [] question.type = "drag" ->
            \/ value.t # "object"
            \/ \E k \in DOMAIN question.correctMapping : k \notin DOMAIN value.m

\* C34: a submitAnswer by a participant of the room, for a question of its
\* quiz, with a value that is malformed for that question does not throw; it
\* appends an answer with that value, isCorrect false and pointsAwarded 0, and
\* leaves the score as it was.
C34_MalformedIsIncorrect ==
    [][ret'.op = "submitAnswer"
        => \A r \in DOMAIN rooms, q \in MixedQuestionIds :
              HasQuestion(rooms[r], q)
              => LET questions == quizzes[rooms[r].quizId].questions
                     question == questions[FindQuestion(questions, q)]
                 IN \A p \in ParticipantIds(rooms[r]), s \in MalformedSubmissions :
                       (/\ Malformed(question, s.value)
                        /\ submitAnswer(r, p, q, s.value, s.timeTakenSec))
                       => LET after == AnswersTo(rooms'[r], q)
                              answer == after[Len(after)]
                          IN /\ ret'.outcome = "ok"
                             /\ Len(after) = Len(AnswersTo(rooms[r], q)) + 1
                             /\ answer.participantId = p
                             /\ answer.value = s.value
                             /\ answer.isCorrect = FALSE
                             /\ answer.pointsAwarded = 0
                             /\ Scores(rooms'[r]) = Scores(rooms[r])]_vars

\* null for the multiple-choice question, a mapping without the item B for
\* the drag question and a number for the fill-in-blank question have been
\* submitted by the participant of a room, the last call being one
\* of them.
C34_Witness ==
    /\ ret = [op |-> "submitAnswer", outcome |-> "ok"]
    /\ calls = 6
    /\ \E r \in DOMAIN rooms :
          /\ rooms[r].participants # <<>>
          /\ \E i \in 1..Len(AnswersTo(rooms[r], "q1")) :
                 /\ AnswersTo(rooms[r], "q1")[i].value = NullV
                 /\ ~AnswersTo(rooms[r], "q1")[i].isCorrect
          /\ \E i \in 1..Len(AnswersTo(rooms[r], "q3")) :
                 /\ AnswersTo(rooms[r], "q3")[i].value = ObjV([k \in {"A"} |-> "1"])
                 /\ ~AnswersTo(rooms[r], "q3")[i].isCorrect
          /\ \E i \in 1..Len(AnswersTo(rooms[r], "q2")) :
                 /\ AnswersTo(rooms[r], "q2")[i].value = NumV(NumOptions)
                 /\ ~AnswersTo(rooms[r], "q2")[i].isCorrect

\* C36: the prototype grades a submitted list for a match question correct
\* exactly when the list has one entry per pair of the question and every
\* left item of the question occurs in it with its own right value.
C36_MatchPairsEveryLeftItem ==
    (/\ Graded
     /\ applied.fn = "gradeAnswer"
     /\ applied.question.type = "match"
     /\ applied.value.t = "array")
    => LET arr == applied.value.a
           pairs == applied.question.pairs
       IN applied.result[1] <=>
             /\ Len(arr) = Len(pairs)
             /\ \A j \in 1..Len(pairs) : \E i \in 1..Len(arr) : arr[i] = pairs[j]

\* The goToNextQuestion calls a room still takes until it is finished.
CallsLeft(room, n) ==
    IF room.status = "finished" THEN 0 ELSE n - room.currentQuestionIndex

\* C37: on a running room at index i of a quiz with N questions, 0 <= i < N,
\* a goToNextQuestion leaves one call fewer to go: it moves to index i + 1,
\* still running, when i < N - 1, and finishes the room when i = N - 1. So
\* successive calls visit i + 1, ..., N - 1 in order, the room is running
\* after N - 1 - i of them and finished after exactly N - i.
C37_AdvanceVisitsEachIndex ==
    [][ret'.op = "goToNextQuestion"
        => \A r \in DOMAIN rooms :
              (/\ rooms[r].status = "running"
               /\ rooms[r].currentQuestionIndex \in 0..(NumQuestions(rooms[r]) - 1)
               /\ goToNextQuestion(r))
              => LET n == NumQuestions(rooms[r])
                     i == rooms[r].currentQuestionIndex
                 IN /\ CallsLeft(rooms'[r], n) = CallsLeft(rooms[r], n) - 1
                    /\ rooms'[r].status = "running"
                          => rooms'[r].currentQuestionIndex = i + 1
                    /\ rooms'[r].status = "finished" <=> i = n - 1
                    /\ rooms'[r].status \in {"running", "finished"}]_vars

\* A room on a quiz of three questions has been started and advanced three
\* times, the third call finishing it from index 2.
C37_Witness ==
    /\ ret = [op |-> "goToNextQuestion", outcome |-> "ok"]
    /\ calls = 6
    /\ \E r \in DOMAIN rooms :
          /\ NumQuestions(rooms[r]) = 3
          /\ rooms[r].status = "finished"
          /\ rooms[r].currentQuestionIndex = 2

\* The question ids for which a room holds an answer by a participant id.
AnsweredBy(room, participantId) ==
    {q \in DOMAIN room.answers :
        \E i \in 1..Len(room.answers[q]) :
            room.answers[q][i].participantId = participantId}

\* C40: in every reachable state a participant's answeredQuestionIds holds
\* no id twice, and holds exactly the question ids for which the room has an
\* answer by that participant.
C40_AnsweredIdsMatchAnswers ==
    \A r \in DOMAIN rooms :
        \A i \in 1..Len(rooms[r].participants) :
            LET ids == rooms[r].participants[i].answeredQuestionIds
            IN /\ \A j, k \in 1..Len(ids) : ids[j] = ids[k] => j = k
               /\ {ids[j] : j \in 1..Len(ids)}
                     = AnsweredBy(rooms[r], rooms[r].participants[i].id)

\* A participant has answered q1 twice and q2 once; the ids noted are q1 and q2.
C40_Witness ==
    \E r \in DOMAIN rooms :
        \E i \in 1..Len(rooms[r].participants) :
            /\ Len(rooms[r].participants[i].answeredQuestionIds) = 2
            /\ AnswerCount(rooms[r], rooms[r].participants[i].id, "q1") = 2
            /\ AnswerCount(rooms[r], rooms[r].participants[i].id, "q2") = 1

\* C35: joinRoom matches the room code without regard to case. When a room
\* has code C and is the one found for C, joinRoom with an upper/lower-case
\* variant of C succeeds and adds the participant to that room.
C35_JoinIgnoresCase ==
    [][ret'.op = "joinRoom"
        => \A code \in TypedCodes, name \in Names, r \in DOMAIN rooms :
              (/\ rooms[r].code = ToUpperCase(code)
               /\ getRoomByCode(rooms[r].code) = r
               /\ joinRoom(code, name))
              => /\ ret'.outcome = "ok"
                 /\ Len(rooms'[r].participants) = Len(rooms[r].participants) + 1]_vars

\* The join form, which upper-cases what was typed, does join the room of
\* any upper/lower-case variant of its code.
JoinFormIgnoresCase ==
    [][ret'.op = "handleJoin"
        => \A code \in TypedCodes, name \in Names, r \in DOMAIN rooms :
              (/\ rooms[r].code = ToUpperCase(code)
               /\ getRoomByCode(rooms[r].code) = r
               /\ handleJoin(code, name))
              => /\ ret'.outcome = "ok"
                 /\ Len(rooms'[r].participants) = Len(rooms[r].participants) + 1
                 /\ app'.currentRoom = Some(rooms'[r])]_vars

\* The answers to a question that a room holds from one participant.
AnswersBy(room, questionId, participantId) ==
    IF questionId \notin DOMAIN room.answers THEN 0
    ELSE Cardinality({i \in 1..Len(room.answers[questionId]) :
                        room.answers[questionId][i].participantId = participantId})

\* C38: through the student's page a participant submits at most one answer
\* per question. Once the store's snapshot of the room shows an answer by the
\* participant to the active question, no step of the page (the Submit button,
\* the time limit running out) adds another answer by them to that question.
C38_OneAnswerPerQuestion ==
    [][HasSubmitted(app)
        => LET r == app.currentRoom[1].id
               q == ActiveQuestion(app)[1].id
           IN AnswersBy(rooms'[r], q, app.participantId[1])
                 = AnswersBy(rooms[r], q, app.participantId[1])]_vars

\* The Submit button alone never sends a second answer.
SubmitButtonSendsOnce ==
    [][(HasSubmitted(app) /\ ret'.op = "submitAnswer")
        => app'.renderer[1].seconds # app.renderer[1].seconds]_vars

\* The store shows the room of its latest subscription (createQuizAndRoom,
\* joinRoom and subscribeRoom each end in one), as that room is now.
CurrentRoomIsLatest ==
    (unsubscribers # <<>> /\ unsubscribers[Len(unsubscribers)].roomId \in DOMAIN rooms)
       => app.currentRoom = Some(rooms[unsubscribers[Len(unsubscribers)].roomId])

\* No room has two of the store's callbacks among its listeners.
OneSubscriptionPerRoom ==
    \A roomId \in DOMAIN listeners : Len(listeners[roomId]) <= 1

\* C39: after any sequence of createQuizAndRoom, joinRoom and subscribeRoom
\* calls on the app store, currentRoom is a snapshot of the room most recently
\* created, joined or subscribed to, whatever is pushed for rooms subscribed
\* earlier, and the store holds at most one live subscription per room.
C39_StoreFollowsLatestRoom == CurrentRoomIsLatest /\ OneSubscriptionPerRoom
====
